---- MODULE Spec2Model ----
(***************************************************************************)
(* Model of src/mcts.py: the AlphaZero-style Monte-Carlo tree search.      *)
(*                                                                         *)
(* The tree is an arena: tree[id] is the Node object with identity id, the *)
(* root is node 1, and a reference to a Node is its id (NoNode for None).  *)
(* Numbers are exact: Python's floats are modelled by reduced fractions    *)
(* <<num, den>>, and the value  sqrt(sum n)  that the exploring score      *)
(* multiplies is kept symbolic, so that scores are compared exactly.       *)
(* Rounding of floating point is not modelled.                             *)
(*                                                                         *)
(* The rules engine (env) and the evaluator (m) are the caller's objects;  *)
(* they are drawn at Init from a bounded family of deterministic games.    *)
(***************************************************************************)
EXTENDS Integers, Sequences, FiniteSets, TLC

VARIABLES tree, env, m, pc, budget, temperature, i, node, leaf, result,
          backed, rootN0

vars == <<tree, env, m, pc, budget, temperature, i, node, leaf, result,
          backed, rootN0>>

(***************************************************************************)
(* Bounds of the model.                                                    *)
(***************************************************************************)
MaxSims == 3        \* simulations run on one tree, over all search calls
MaxDepth == 2       \* a game ends after at most this many plies
PriorGrid == 2      \* priors are the multiples of 1/(2*PriorGrid) in [0,1]
MaxCPuct == 2       \* c_puct ranges over 1..MaxCPuct

(***************************************************************************)
(* env.action_space_size of the modelled rules engines.                    *)
(***************************************************************************)
ActionSpaceSize == 2

Actions == 0 .. (ActionSpaceSize - 1)

NoNode == 0         \* None, as a node reference
NoAction == -1      \* None, as an action
Root == 1

(***************************************************************************)
(* Exact arithmetic: fractions <<num, den>> with den > 0, reduced.         *)
(***************************************************************************)
Abs(x) == IF x < 0 THEN -x ELSE x

\* The arithmetic is defined by functions: a function is applied to the
\* values of its arguments, computed once.
GCD[a \in Nat, b \in Nat] == IF b = 0 THEN a ELSE GCD[b, a % b]

Reduce[a \in Int, b \in Int] ==
    LET g == GCD[Abs(a), Abs(b)]
        s == IF b < 0 THEN -1 ELSE 1
    IN  IF a = 0 THEN <<0, 1>> ELSE <<s * (a \div g), s * (b \div g)>>

\* the fraction a / b, for b # 0
Frac(a, b) == Reduce[a, b]

Fractions == Int \X Int

FInt(k) == <<k, 1>>
FNeg(x) == <<-x[1], x[2]>>
Sum[x \in Fractions, y \in Fractions] ==
    Frac(x[1] * y[2] + y[1] * x[2], x[2] * y[2])
Product[x \in Fractions, y \in Fractions] ==
    Frac(x[1] * y[1], x[2] * y[2])
FAdd(x, y) == Sum[x, y]
FSub(x, y) == Sum[x, FNeg(y)]
FMul(x, y) == Product[x, y]
RECURSIVE Pow(_, _)
Pow(b, e) == IF e = 0 THEN 1 ELSE b * Pow(b, e - 1)

(***************************************************************************)
(* Temperatures are fractions; the model draws them from 0 and the         *)
(* reciprocals of small integers, so that n ** (1 / temperature) is an     *)
(* integer power.                                                          *)
(***************************************************************************)
Temperatures == {<<0, 1>>, <<1, 1>>, <<1, 2>>}

(***************************************************************************)
(* class Node                                                              *)
(***************************************************************************)
NewNode(parent, a, s, to_play, p) ==
    [n |-> 0, w |-> 0, q |-> <<0, 1>>, p |-> p,
     parent |-> parent, a |-> a, s |-> s, to_play |-> to_play,
     children |-> <<>>]

\* is_leaf off by one: a node with a single child counts as a leaf
is_leaf_single_child(t, nd) == Len(t[nd].children) <= 1

is_leaf(t, nd) == Len(t[nd].children) = 0

get_action(t, nd) == t[nd].a

(***************************************************************************)
(* math.sqrt, kept symbolic: Sqrt(k) stands for the real number sqrt(k).   *)
(* A score is the real number  rat + coef * sqrt(rad).                     *)
(***************************************************************************)
Sqrt(k) == [rad |-> k]

\* d * sqrt(rad) > e, for fractions d and e
SurdGreater[d \in Fractions, e \in Fractions, rad \in Nat] ==
    LET lhs == d[1] * d[1] * rad * e[2] * e[2]      \* (d^2 * rad) * den(e)^2 * den(d)^2
        rhs == e[1] * e[1] * d[2] * d[2]            \* e^2 * den(e)^2 * den(d)^2
    IN  IF d[1] >= 0
        THEN IF e[1] < 0 THEN TRUE ELSE lhs > rhs
        ELSE IF e[1] >= 0 THEN FALSE ELSE lhs < rhs

ScoreGreater(x, y) ==
    SurdGreater[FSub(x.coef, y.coef), FSub(y.rat, x.rat), x.rad]

\* get_exploring_score with the sign of q lost:  q + c_puct * p * ...
get_exploring_score_plus_q(t, nd, sqrt_sum_n, c_puct) ==
    [rat  |-> t[nd].q,
     coef |-> FMul(FMul(FInt(c_puct), t[nd].p), Frac(1, 1 + t[nd].n)),
     rad  |-> sqrt_sum_n.rad]

\* get_exploring_score with the bonus multiplied by 1 + n, not divided
get_exploring_score_times_n(t, nd, sqrt_sum_n, c_puct) ==
    [rat  |-> FNeg(t[nd].q),
     coef |-> FMul(FMul(FInt(c_puct), t[nd].p), FInt(1 + t[nd].n)),
     rad  |-> sqrt_sum_n.rad]

\* Node.get_exploring_score:  - q + c_puct * p * sqrt_sum_n / (1 + n)
get_exploring_score(t, nd, sqrt_sum_n, c_puct) ==
    [rat  |-> FNeg(t[nd].q),
     coef |-> FMul(FMul(FInt(c_puct), t[nd].p), Frac(1, 1 + t[nd].n)),
     rad  |-> sqrt_sum_n.rad]

\* sum(child.n for child in self.children)
RECURSIVE SumN(_, _)
SumN(t, kids) ==
    IF kids = <<>> THEN 0 ELSE t[Head(kids)].n + SumN(t, Tail(kids))

\* max(seq, key) returning the last of the maximal elements
RECURSIVE MaxByScore_last_maximal(_, _, _, _, _)
MaxByScore_last_maximal(t, kids, best, sqrt_sum_n, c_puct) ==
    IF kids = <<>> THEN best
    ELSE LET c == Head(kids)
             better == ~ ScoreGreater(get_exploring_score(t, best, sqrt_sum_n, c_puct),
                                      get_exploring_score(t, c, sqrt_sum_n, c_puct))
         IN  MaxByScore_last_maximal(t, Tail(kids), IF better THEN c ELSE best,
                                     sqrt_sum_n, c_puct)

\* max(seq, key): the first element whose key no later element exceeds
RECURSIVE MaxByScore(_, _, _, _, _)
MaxByScore(t, kids, best, sqrt_sum_n, c_puct) ==
    IF kids = <<>> THEN best
    ELSE LET c == Head(kids)
             better == ScoreGreater(get_exploring_score(t, c, sqrt_sum_n, c_puct),
                                    get_exploring_score(t, best, sqrt_sum_n, c_puct))
         IN  MaxByScore(t, Tail(kids), IF better THEN c ELSE best,
                        sqrt_sum_n, c_puct)

\* Node.get_best_child_to_explore, on a node that has children
get_best_child_to_explore(t, nd, c_puct) ==
    LET sqrt_sum_n == Sqrt(SumN(t, t[nd].children))
    IN  MaxByScore(t, Tail(t[nd].children), Head(t[nd].children),
                   sqrt_sum_n, c_puct)

(***************************************************************************)
(* Outcome of a call: how it ended, and what it returned.                  *)
(***************************************************************************)
Outcome(op, status, vec, nd, a) ==
    [op |-> op, status |-> status, value |-> vec, node |-> nd, a |-> a,
     on |-> NoNode, temp |-> <<1, 1>>, c_puct |-> 1, sims |-> 0]

\* the outcome r, with the arguments of the call it ends (sims is the
\* num_simulations of a search)
OfCall(r, op, on, temp, c_puct) ==
    [r EXCEPT !.op = op, !.on = on, !.temp = temp, !.c_puct = c_puct]

NoResult == Outcome("none", "none", <<>>, NoNode, NoAction)

Raised(op, exc) == Outcome(op, exc, <<>>, NoNode, NoAction)

\* child.n ** (1 / temperature), for temperature = 1/k
Weight(t, c, temp) == Pow(t[c].n, temp[2] \div temp[1])

RECURSIVE SumWeights(_, _, _)
SumWeights(t, kids, temp) ==
    IF kids = <<>> THEN 0
    ELSE Weight(t, Head(kids), temp) + SumWeights(t, Tail(kids), temp)

\* sparse_policy.get(a, 0)
SparseGet(t, kids, temp, sum_n, a) ==
    LET hit == {k \in 1..Len(kids) : t[kids[k]].a = a}
    IN  IF hit = {} THEN <<0, 1>>
        ELSE LET k == CHOOSE k \in hit : \A j \in hit : j <= k
             IN  Frac(Weight(t, kids[k], temp), sum_n)

\* Node.get_policy
get_policy(t, nd, temp, action_space) ==
    LET kids == t[nd].children
    IN  IF kids = <<>>
        THEN Outcome("policy", "ok", [a \in 1..action_space |-> <<0, 1>>],
                     NoNode, NoAction)
        ELSE IF temp[1] = 0
        THEN Raised("policy", "ZeroDivisionError")       \* 1 / temperature
        ELSE LET sum_n == SumWeights(t, kids, temp)
             IN  IF sum_n = 0
                 THEN Raised("policy", "ZeroDivisionError")   \* 0 / sum_n
                 ELSE Outcome("policy", "ok",
                              [a \in 1..action_space |->
                                  SparseGet(t, kids, temp, sum_n, a - 1)],
                              NoNode, NoAction)

\* get_best_child_to_play with the draw falling on any child, visited or not
get_best_child_to_play_any_child(t, nd, temp) ==
    LET kids == t[nd].children
    IN  IF kids = <<>>
        THEN {Raised("play", "IndexError")}
        ELSE IF temp[1] = 0
        THEN {Raised("play", "ZeroDivisionError")}
        ELSE LET sum_n == SumWeights(t, kids, temp)
             IN  IF sum_n = 0
                 THEN {Raised("play", "ZeroDivisionError")}
                 ELSE {Outcome("play", "ok", <<>>, kids[k], NoAction) :
                          k \in 1..Len(kids)}

\* Node.get_best_child_to_play: the set of its possible outcomes; the draw
\* of random.choices falls on a child of positive weight.
get_best_child_to_play(t, nd, temp) ==
    LET kids == t[nd].children
    IN  IF kids = <<>>
        THEN {Raised("play", "IndexError")}              \* random.choices([])
        ELSE IF temp[1] = 0
        THEN {Raised("play", "ZeroDivisionError")}       \* 1 / temperature
        ELSE LET sum_n == SumWeights(t, kids, temp)
             IN  IF sum_n = 0
                 THEN {Raised("play", "ZeroDivisionError")}   \* 0 / sum_n
                 ELSE {Outcome("play", "ok", <<>>, kids[k], NoAction) :
                          k \in {j \in 1..Len(kids) : Weight(t, kids[j], temp) > 0}}

\* play
play(t, current_node, temp) ==
    {IF r.status = "ok"
     THEN Outcome("play", "ok", <<>>, r.node, get_action(t, r.node))
     ELSE r : r \in get_best_child_to_play(t, current_node, temp)}

(***************************************************************************)
(* The rules engine and the evaluator.  A game state is the sequence of    *)
(* the actions played so far.  env = [termLen, rew, legal]: a state is     *)
(* terminal once termLen plies were played, compute_reward gives rew[a]    *)
(* for a state reached by action a, and the actions of env.legal are the   *)
(* legal ones.  m = [pri, val]: the evaluator returns the priors           *)
(* pri[a] / (2 * PriorGrid) and the value val.  The priors are a           *)
(* probability vector, or all 0 (the code does not normalise them).  A     *)
(* reward is the outcome of a game: loss, draw or win; the evaluator's     *)
(* values are drawn from the same set.                                     *)
(***************************************************************************)
Rewards == {-1, 0, 1}

Envs == [termLen : 0..MaxDepth, rew : [Actions -> Rewards], legal : SUBSET Actions]

PriorSum(pri) ==
    LET RECURSIVE Go(_)
        Go(a) == IF a = ActionSpaceSize THEN 0 ELSE pri[a] + Go(a + 1)
    IN  Go(0)

Evaluators ==
    {e \in [pri : [Actions -> 0..(2 * PriorGrid)], val : Rewards] :
        PriorSum(e.pri) \in {0, 2 * PriorGrid}}

is_terminal(e, s) == Len(s) >= e.termLen

compute_reward(e, s) == IF s = <<>> THEN e.rew[0] ELSE e.rew[s[Len(s)]]

is_legal(e, a, s) == a \in e.legal

transition(e, s, a) == Append(s, a)

\* m(leaf.s.board) = (ps, v)
Evaluate(ev, s) ==
    [ps |-> [a \in Actions |-> Frac(ev.pri[a], 2 * PriorGrid)], v |-> ev.val]

(***************************************************************************)
(* The one-ply game of the end-to-end scenario: two legal actions, both    *)
(* ending the game; the player who moves gets +1 for action 0 and -1 for   *)
(* action 1.  compute_reward speaks for the player to move at the state it *)
(* is given, the opponent of the mover, as q does at every node; the       *)
(* evaluator's priors are uniform.                                         *)
(***************************************************************************)
MoverReward == [a \in Actions |-> IF a = 0 THEN 1 ELSE -1]

OnePly ==
    [sims |-> 100,
     env  |-> [termLen |-> 1, rew |-> [a \in Actions |-> -MoverReward[a]],
               legal |-> Actions]]

IsOnePly(e, ev) ==
    /\ e = OnePly.env
    /\ \A a \in Actions : ev.pri[a] = PriorGrid

(***************************************************************************)
(* expand_and_evaluate                                                     *)
(***************************************************************************)
\* the loop of expand_and_evaluate giving the children the leaf's to_play
RECURSIVE ExpandLoop_same_player(_, _, _, _, _)
ExpandLoop_same_player(t, e, lf, ps, a) ==
    IF a = ActionSpaceSize THEN t
    ELSE IF ~ is_legal(e, a, t[lf].s) THEN ExpandLoop_same_player(t, e, lf, ps, a + 1)
    ELSE LET s == transition(e, t[lf].s, a)
             child == NewNode(lf, a, s, t[lf].to_play, ps[a])
             id == Len(t) + 1
             t2 == Append([t EXCEPT ![lf].children = Append(@, id)], child)
         IN  ExpandLoop_same_player(t2, e, lf, ps, a + 1)

\* the loop of expand_and_evaluate without the test of legality
RECURSIVE ExpandLoop_no_legality_test(_, _, _, _, _)
ExpandLoop_no_legality_test(t, e, lf, ps, a) ==
    IF a = ActionSpaceSize THEN t
    ELSE LET s == transition(e, t[lf].s, a)
             child == NewNode(lf, a, s, (t[lf].to_play + 1) % 2, ps[a])
             id == Len(t) + 1
             t2 == Append([t EXCEPT ![lf].children = Append(@, id)], child)
         IN  ExpandLoop_no_legality_test(t2, e, lf, ps, a + 1)

\* the loop  for a, p in enumerate(ps)  from action a on
RECURSIVE ExpandLoop(_, _, _, _, _)
ExpandLoop(t, e, lf, ps, a) ==
    IF a = ActionSpaceSize THEN t
    ELSE IF ~ is_legal(e, a, t[lf].s) THEN ExpandLoop(t, e, lf, ps, a + 1)
    ELSE LET s == transition(e, t[lf].s, a)
             child == NewNode(lf, a, s, (t[lf].to_play + 1) % 2, ps[a])
             id == Len(t) + 1
             t2 == Append([t EXCEPT ![lf].children = Append(@, id)], child)
         IN  ExpandLoop(t2, e, lf, ps, a + 1)

\* expand_and_evaluate with the terminal reward assigned, not added
expand_and_evaluate_overwrite(t, e, ev, lf) ==
    IF is_terminal(e, t[lf].s)
    THEN [t EXCEPT ![lf].w = compute_reward(e, t[lf].s)]
    ELSE LET r == Evaluate(ev, t[lf].s)
         IN  ExpandLoop([t EXCEPT ![lf].w = r.v], e, lf, r.ps, 0)

expand_and_evaluate(t, e, ev, lf) ==
    IF is_terminal(e, t[lf].s)
    THEN [t EXCEPT ![lf].w = @ + compute_reward(e, t[lf].s)]
    ELSE LET r == Evaluate(ev, t[lf].s)
         IN  ExpandLoop([t EXCEPT ![lf].w = r.v], e, lf, r.ps, 0)

(***************************************************************************)
(* backup                                                                  *)
(***************************************************************************)
\* the loop of backup without the test of to_play: v is always added
RECURSIVE BackupLoop_same_sign(_, _, _, _)
BackupLoop_same_sign(t, nd, to_play, v) ==
    IF nd = NoNode THEN t
    ELSE LET w2 == t[nd].w + v
             n2 == t[nd].n + 1
             t2 == [t EXCEPT ![nd].n = n2, ![nd].w = w2, ![nd].q = Frac(w2, n2)]
         IN  BackupLoop_same_sign(t2, t[nd].parent, to_play, v)

\* the loop of backup with q computed from w before w is updated
RECURSIVE BackupLoop_stale_q(_, _, _, _)
BackupLoop_stale_q(t, nd, to_play, v) ==
    IF nd = NoNode THEN t
    ELSE LET w2 == t[nd].w + (IF t[nd].to_play = to_play THEN v ELSE -v)
             n2 == t[nd].n + 1
             t2 == [t EXCEPT ![nd].n = n2, ![nd].w = w2, ![nd].q = Frac(t[nd].w, n2)]
         IN  BackupLoop_stale_q(t2, t[nd].parent, to_play, v)

\* the loop  while leaf is not None
RECURSIVE BackupLoop(_, _, _, _)
BackupLoop(t, nd, to_play, v) ==
    IF nd = NoNode THEN t
    ELSE LET w2 == t[nd].w + (IF t[nd].to_play = to_play THEN v ELSE -v)
             n2 == t[nd].n + 1
             t2 == [t EXCEPT ![nd].n = n2, ![nd].w = w2, ![nd].q = Frac(w2, n2)]
         IN  BackupLoop(t2, t[nd].parent, to_play, v)

\* the nodes from nd up to the root
RECURSIVE PathToRoot(_, _)
PathToRoot(t, nd) ==
    IF nd = NoNode THEN {} ELSE {nd} \cup PathToRoot(t, t[nd].parent)

\* backup counting the visit on the nodes off the path as well
backup_counts_every_node(t, lf) ==
    LET to_play == t[lf].to_play
        v == t[lf].w
        n2 == t[lf].n + 1
        t2 == [t EXCEPT ![lf].n = n2, ![lf].q = Frac(t[lf].w, n2)]
        t3 == BackupLoop(t2, t[lf].parent, to_play, v)
    IN  [k \in 1..Len(t) |->
            IF k \in PathToRoot(t, lf) THEN t3[k] ELSE [t3[k] EXCEPT !.n = @ + 1]]

\* backup without the count of the leaf's own visit
backup_leaf_uncounted(t, lf) ==
    LET to_play == t[lf].to_play
        v == t[lf].w
    IN  BackupLoop(t, t[lf].parent, to_play, v)

backup(t, lf) ==
    LET to_play == t[lf].to_play
        v == t[lf].w
        n2 == t[lf].n + 1
        t2 == [t EXCEPT ![lf].n = n2, ![lf].q = Frac(t[lf].w, n2)]
    IN  BackupLoop(t2, t[lf].parent, to_play, v)

(***************************************************************************)
(* The state machine.  pc is the position of the caller: "idle" between    *)
(* calls, and inside search the loop head ("loop"), the descent of select  *)
(* ("select"), and the points before expand_and_evaluate ("expand") and    *)
(* before backup ("backup").  result is the outcome of the last call that  *)
(* returned.  backed[id] counts the backups that wrote node id, and rootN0 *)
(* is root.n at the start of the running search.                           *)
(***************************************************************************)
Init ==
    /\ env \in Envs
    /\ m \in Evaluators
    /\ tree = <<NewNode(NoNode, NoAction, <<>>, 0, <<0, 1>>)>>
    /\ backed = <<0>>
    /\ pc = "idle"
    /\ budget = 0
    /\ temperature = <<1, 1>>
    /\ i = 0
    /\ node = NoNode
    /\ leaf = NoNode
    /\ result = NoResult
    /\ rootN0 = 0

\* search(root, m, env, num_simulations, temperature) is called
CallSearch(num, temp) ==
    /\ pc = "idle"
    /\ \/ tree[Root].n + num <= MaxSims
       \/ IsOnePly(env, m) /\ tree[Root].n = 0 /\ num = OnePly.sims
    /\ budget' = num
    /\ temperature' = temp
    /\ i' = 0
    /\ rootN0' = tree[Root].n
    /\ result' = NoResult
    /\ pc' = "loop"
    /\ UNCHANGED <<tree, env, m, node, leaf, backed>>

\* the loop of search running once more than num_simulations
SearchLoop_one_more ==
    /\ pc = "loop"
    /\ i <= budget
    /\ node' = Root
    /\ pc' = "select"
    /\ UNCHANGED <<tree, env, m, budget, temperature, i, leaf, result, backed, rootN0>>

\* for _ in range(num_simulations): leaf = select(root) ...
SearchLoop ==
    /\ pc = "loop"
    /\ i < budget
    /\ node' = Root
    /\ pc' = "select"
    /\ UNCHANGED <<tree, env, m, budget, temperature, i, leaf, result, backed, rootN0>>

\* select: while not node.is_leaf(): node = node.get_best_child_to_explore()
SelectStep ==
    /\ pc = "select"
    /\ ~ is_leaf(tree, node)
    /\ node' = get_best_child_to_explore(tree, node, 1)
    /\ UNCHANGED <<tree, env, m, pc, budget, temperature, i, leaf, result, backed, rootN0>>

\* select returning the node it is on without the test of is_leaf
SelectReturn_any_node ==
    /\ pc = "select"
    /\ leaf' = node
    /\ node' = NoNode
    /\ pc' = "expand"
    /\ UNCHANGED <<tree, env, m, budget, temperature, i, result, backed, rootN0>>

\* select: return node
SelectReturn ==
    /\ pc = "select"
    /\ is_leaf(tree, node)
    /\ leaf' = node
    /\ node' = NoNode
    /\ pc' = "expand"
    /\ UNCHANGED <<tree, env, m, budget, temperature, i, result, backed, rootN0>>

\* expand_and_evaluate(leaf, m, env)
ExpandAndEvaluate ==
    /\ pc = "expand"
    /\ tree' = expand_and_evaluate(tree, env, m, leaf)
    /\ backed' = backed \o [k \in 1..(Len(tree') - Len(tree)) |-> 0]
    /\ pc' = "backup"
    /\ UNCHANGED <<env, m, budget, temperature, i, node, leaf, result, rootN0>>

\* backup(leaf), and the end of the loop body
Backup ==
    /\ pc = "backup"
    /\ tree' = backup(tree, leaf)
    /\ backed' = [k \in 1..Len(backed) |->
                    IF k \in PathToRoot(tree, leaf) THEN backed[k] + 1 ELSE backed[k]]
    /\ i' = i + 1
    /\ leaf' = NoNode
    /\ pc' = "loop"
    /\ UNCHANGED <<env, m, budget, temperature, node, result, rootN0>>

\* return root.get_policy(temperature, env.action_space_size)
SearchReturn ==
    /\ pc = "loop"
    /\ i >= budget
    /\ result' = [OfCall(get_policy(tree, Root, temperature, ActionSpaceSize),
                         "search", Root, temperature, 1) EXCEPT !.sims = budget]
    /\ budget' = 0
    /\ temperature' = <<1, 1>>
    /\ i' = 0
    /\ rootN0' = 0
    /\ pc' = "idle"
    /\ UNCHANGED <<tree, env, m, node, leaf, backed>>

\* The calls below change nothing but result.  They are taken from the
\* states whose result is not theirs: every pair of a tree and an outcome
\* is reached that way, and a search (of zero simulations, say) leads from
\* any outcome to the next call.
CanQuery == pc = "idle" /\ result.op \in {"none", "search"}

\* nd.get_policy(temp, env.action_space_size) is called
CallPolicy(nd, temp) ==
    /\ CanQuery
    /\ result' = OfCall(get_policy(tree, nd, temp, ActionSpaceSize),
                        "policy", nd, temp, 1)
    /\ UNCHANGED <<tree, env, m, pc, budget, temperature, i, node, leaf, backed, rootN0>>

\* play(nd, temp) is called
CallPlay(nd, temp) ==
    /\ CanQuery
    /\ \E r \in play(tree, nd, temp) :
          result' = OfCall(r, "play", nd, temp, 1)
    /\ UNCHANGED <<tree, env, m, pc, budget, temperature, i, node, leaf, backed, rootN0>>

\* nd.get_best_child_to_explore(c_puct) is called
CallExplore(nd, c_puct) ==
    /\ CanQuery
    /\ result' =
          IF is_leaf(tree, nd)
          THEN OfCall(Raised("explore", "ValueError"), "explore", nd, <<1, 1>>, c_puct)
          ELSE OfCall(Outcome("explore", "ok", <<>>,
                              get_best_child_to_explore(tree, nd, c_puct), NoAction),
                      "explore", nd, <<1, 1>>, c_puct)
    /\ UNCHANGED <<tree, env, m, pc, budget, temperature, i, node, leaf, backed, rootN0>>

Next ==
    \/ \E num \in (0..MaxSims) \cup {OnePly.sims}, temp \in Temperatures :
          CallSearch(num, temp)
    \/ SearchLoop
    \/ SelectStep
    \/ SelectReturn
    \/ ExpandAndEvaluate
    \/ Backup
    \/ SearchReturn
    \/ \E nd \in 1..Len(tree), temp \in Temperatures : CallPolicy(nd, temp)
    \/ \E nd \in 1..Len(tree), temp \in Temperatures : CallPlay(nd, temp)
    \/ \E nd \in 1..Len(tree), c_puct \in 1..MaxCPuct : CallExplore(nd, c_puct)

Spec == Init /\ [][Next]_vars

(***************************************************************************)
(* backup called by the user on a node of the tree, outside search.  It    *)
(* has no test of its argument and no statement that can raise (n is at    *)
(* least 1 at the division  w / n): it returns None.                       *)
(***************************************************************************)
CallBackup(nd) ==
    /\ CanQuery
    /\ tree[Root].n < MaxSims
    /\ tree' = backup(tree, nd)
    /\ backed' = [k \in 1..Len(backed) |->
                    IF k \in PathToRoot(tree, nd) THEN backed[k] + 1 ELSE backed[k]]
    /\ result' = OfCall(Outcome("backup", "ok", <<>>, NoNode, NoAction),
                        "backup", nd, <<1, 1>>, 1)
    /\ UNCHANGED <<env, m, pc, budget, temperature, i, node, leaf, rootN0>>

NextDirect ==
    \/ Next
    \/ \E nd \in 1..Len(tree) : CallBackup(nd)

SpecDirect == Init /\ [][NextDirect]_vars

(***************************************************************************)
(* A hand-built chain  root -> child -> leaf  of nodes made by Node(...)   *)
(* whose to_play alternates, with the leaf's w set by a stub evaluation    *)
(* and backup(leaf) about to run as the last step of a one-simulation      *)
(* search.                                                                 *)
(***************************************************************************)
InitChain ==
    /\ env \in {e \in Envs : e.legal = Actions}
    /\ m \in {ev \in Evaluators : \A a \in Actions : ev.pri[a] = PriorGrid}
    /\ \E tp \in 0..1, w0 \in Rewards :
          tree = <<[NewNode(NoNode, NoAction, <<>>, tp, <<0, 1>>)
                       EXCEPT !.children = <<2>>],
                   [NewNode(1, 0, <<0>>, (tp + 1) % 2, Evaluate(m, <<>>).ps[0])
                       EXCEPT !.children = <<3>>],
                   [NewNode(2, 0, <<0, 0>>, tp, Evaluate(m, <<0>>).ps[0])
                       EXCEPT !.w = w0]>>
    /\ backed = <<0, 0, 0>>
    /\ pc = "backup"
    /\ budget = 1
    /\ temperature = <<1, 1>>
    /\ i = 0
    /\ node = NoNode
    /\ leaf = 3
    /\ result = NoResult
    /\ rootN0 = 0

SpecChain == InitChain /\ [][Next]_vars

(***************************************************************************)
(* The steps of search itself.  search is sequential code that nothing     *)
(* suspends: its next step, when there is one, is taken.  FairSpec states  *)
(* this for the games whose reward does not depend on the last action.     *)
(***************************************************************************)
SearchStep ==
    \/ SearchLoop
    \/ SelectStep
    \/ SelectReturn
    \/ ExpandAndEvaluate
    \/ Backup
    \/ SearchReturn

InitFair == Init /\ \A a \in Actions : env.rew[a] = env.rew[0]

FairSpec == InitFair /\ [][Next]_vars /\ WF_vars(SearchStep)

TypeOK ==
    /\ pc \in {"idle", "loop", "select", "expand", "backup"}
    /\ Len(backed) = Len(tree)
    /\ \A k \in 1..Len(tree) : tree[k].n >= 0

(***************************************************************************)
(* Properties.                                                             *)
(***************************************************************************)
RECURSIVE VecSum(_)
VecSum(vec) == IF vec = <<>> THEN <<0, 1>> ELSE FAdd(Head(vec), VecSum(Tail(vec)))

HasChildren(nd) == tree[nd].children # <<>>

IsDistribution(vec) ==
    /\ Len(vec) = ActionSpaceSize
    /\ \A k \in 1..Len(vec) : vec[k][1] >= 0
    /\ VecSum(vec) = <<1, 1>>

\* C1: for every temperature > 0, get_policy on a node with at least one
\* child (and so the return of search, once the root has a child) returns
\* normally a vector of length action_space_size with entries >= 0 that sum
\* to 1.
C1_PolicyIsDistribution ==
    (/\ result.op \in {"policy", "search"}
     /\ result.temp[1] > 0
     /\ HasChildren(result.on))
    => (result.status = "ok" /\ IsDistribution(result.value))

\* C2: with temperature == 0, play raises no division error: it returns the
\* child with the maximal visit count.
C2_ZeroTemperatureArgmax ==
    (result.op = "play" /\ result.temp[1] = 0)
    => /\ result.status # "ZeroDivisionError"
       /\ HasChildren(result.on) =>
             /\ result.status = "ok"
             /\ \E k \in 1..Len(tree[result.on].children) :
                   result.node = tree[result.on].children[k]
             /\ \A k \in 1..Len(tree[result.on].children) :
                   tree[tree[result.on].children[k]].n <= tree[result.node].n
             /\ result.a = tree[result.node].a

\* The end-to-end scenario has run: a search of 100 simulations at
\* temperature 1 on the fresh root of the one-ply game has returned.
ScenarioDone ==
    /\ IsOnePly(env, m)
    /\ result.op = "search"
    /\ result.sims = OnePly.sims
    /\ tree[Root].n = OnePly.sims
    /\ result.temp = <<1, 1>>

\* C3: in the one-ply game (action 0 wins, action 1 loses for the mover,
\* uniform priors), search with 100 simulations at temperature 1 returns a
\* policy with policy[0] > 0.9.
C3_ScenarioPolicy ==
    ScenarioDone =>
        /\ result.status = "ok"
        /\ Len(result.value) = ActionSpaceSize
        /\ 10 * result.value[1][1] > 9 * result.value[1][2]

C3_Witness ==
    /\ ScenarioDone
    /\ result.status = "ok"
    /\ tree[tree[Root].children[1]].n + tree[tree[Root].children[2]].n = OnePly.sims - 1
    /\ tree[tree[Root].children[2]].n > 0

\* q = w / n, without the division
IsMean(nd) == nd.q[2] > 0 /\ nd.q[1] * nd.n = nd.w * nd.q[2]

\* the ancestors of nd, from its parent up to the root
Ancestors(nd) == PathToRoot(tree, tree[nd].parent)

\* backup(leaf) is about to run on the unvisited chain 1 -> 2 -> 3 with
\* to_play 0, 1, 0 and leaf w = 1
ChainCase ==
    /\ Len(tree) = 3 /\ leaf = 3
    /\ tree[3].parent = 2 /\ tree[2].parent = 1 /\ tree[1].parent = NoNode
    /\ tree[1].to_play = 0 /\ tree[2].to_play = 1 /\ tree[3].to_play = 0
    /\ \A k \in 1..3 : tree[k].n = 0
    /\ tree[1].w = 0 /\ tree[2].w = 0 /\ tree[3].w = 1

\* C4: backup(leaf), with v the leaf's w: n grows by exactly 1 on the leaf
\* and on every ancestor; the leaf's w is unchanged; an ancestor's w grows by
\* v if its to_play is the leaf's and by -v otherwise; q = w / n on every node
\* of the path.  On the unvisited chain with to_play 0,1,0 and leaf w = 1 the
\* q of leaf, child and root become 1, -1 and 1.
C4_BackupStep ==
    [][pc = "backup" =>
        LET v == tree[leaf].w
        IN  /\ tree'[leaf].n = tree[leaf].n + 1
            /\ tree'[leaf].w = v
            /\ IsMean(tree'[leaf])
            /\ \A k \in Ancestors(leaf) :
                  /\ tree'[k].n = tree[k].n + 1
                  /\ tree'[k].w = tree[k].w +
                        (IF tree[k].to_play = tree[leaf].to_play THEN v ELSE -v)
                  /\ IsMean(tree'[k])
            /\ ChainCase =>
                  /\ tree'[3].q = <<1, 1>>
                  /\ tree'[2].q = <<-1, 1>>
                  /\ tree'[1].q = <<1, 1>>]_vars

C4_Witness ==
    /\ Len(tree) = 3
    /\ backed = <<1, 1, 1>>
    /\ tree[1].to_play = 0 /\ tree[2].to_play = 1 /\ tree[3].to_play = 0
    /\ tree[3].w = 1 /\ tree[3].n = 1
    /\ tree[3].q = <<1, 1>> /\ tree[2].q = <<-1, 1>> /\ tree[1].q = <<1, 1>>

\* between the simulations: no expand_and_evaluate is waiting for its backup
BetweenSimulations == pc # "backup"

IsTerminalNode(k) == is_terminal(env, tree[k].s)

\* C5: a terminal leaf that was selected N >= 1 times, the rules engine
\* giving the reward r for its state each time, has n = N and q = r after
\* those N expand_and_evaluate + backup steps.
C5_TerminalRevisit ==
    BetweenSimulations =>
        \A k \in 1..Len(tree) :
            (IsTerminalNode(k) /\ backed[k] >= 1) =>
                /\ tree[k].n = backed[k]
                /\ tree[k].q = <<compute_reward(env, tree[k].s), 1>>

C5_Witness ==
    /\ BetweenSimulations
    /\ \E k \in 1..Len(tree) :
          /\ IsTerminalNode(k)
          /\ backed[k] >= 2
          /\ compute_reward(env, tree[k].s) # 0
          /\ tree[k].q = <<compute_reward(env, tree[k].s), 1>>

\* the sum of the values that the visits of node k have backed up, each
\* visit counted once, for the player to move at k: a visit of a terminal
\* leaf is worth its reward, the evaluation of a node is worth the
\* evaluator's value, and a visit that went through a child is worth the
\* opposite of what it is worth at the child
RECURSIVE PerVisitTotal(_)
PerVisitTotal(k) ==
    LET kids == tree[k].children
        RECURSIVE Below(_)
        Below(j) == IF j > Len(kids) THEN 0
                    ELSE PerVisitTotal(kids[j]) + Below(j + 1)
    IN  IF IsTerminalNode(k) THEN tree[k].n * compute_reward(env, tree[k].s)
        ELSE IF kids = <<>> THEN tree[k].n * Evaluate(m, tree[k].s).v
        ELSE Evaluate(m, tree[k].s).v - Below(1)

\* C6: each visit of a terminal leaf adds its reward to the statistics once:
\* after N visits the reward is counted N times, not more, in the w of the
\* leaf and, with the sign given by to_play, in the w of every ancestor, so
\* that q stays the mean of the values backed up per visit.
C6_RewardCountedOncePerVisit ==
    BetweenSimulations =>
        \A k \in 1..Len(tree) :
            (tree[k].n > 0 /\ (IsTerminalNode(k) \/ HasChildren(k))) =>
                /\ tree[k].w = PerVisitTotal(k)
                /\ IsMean(tree[k])

\* the children of nd, as a set
Kids(nd) == {tree[nd].children[k] : k \in 1..Len(tree[nd].children)}

\* c and d are children with equal prior and equal q, and d was visited
\* more often than c
LessVisitedTwin(c, d) ==
    /\ tree[c].p = tree[d].p
    /\ tree[c].q = tree[d].q
    /\ tree[c].n < tree[d].n

\* C7 as stated: get_best_child_to_explore never returns the child with the
\* higher visit count among two children of equal prior p and equal q, for
\* every prior in [0,1] and every positive c_puct.
C7_NeverTheMoreVisitedTwin ==
    (result.op = "explore" /\ result.status = "ok") =>
        \A c \in Kids(result.on) : ~ LessVisitedTwin(c, result.node)

\* C7 amended: get_best_child_to_explore never returns the child with the
\* higher visit count among two children of equal positive prior p and equal
\* q, for every positive c_puct.
C7_NeverTheMoreVisitedTwinPositivePrior ==
    (result.op = "explore" /\ result.status = "ok") =>
        \A c \in Kids(result.on) :
            tree[c].p[1] > 0 => ~ LessVisitedTwin(c, result.node)

C7_Witness ==
    /\ result.op = "explore" /\ result.status = "ok"
    /\ result.c_puct > 1
    /\ \E d \in Kids(result.on) :
          /\ tree[d].p[1] > 0
          /\ LessVisitedTwin(result.node, d)

\* C8: select ends on every reachable tree; it returns a node without
\* children at or below the node it started from, each step going to the
\* best child to explore, and it changes no node.
C8_Select ==
    /\ [](pc = "select" => <>(pc = "expand"))
    /\ [][pc = "select" =>
            /\ tree' = tree
            /\ pc' = "select" =>
                  /\ node' \in Kids(node)
                  /\ node' = get_best_child_to_explore(tree, node, 1)
            /\ pc' # "select" =>
                  /\ pc' = "expand"
                  /\ leaf' = node
                  /\ tree[leaf'].children = <<>>
                  /\ Root \in PathToRoot(tree, leaf')]_vars

C8_Witness ==
    /\ pc = "expand"
    /\ tree[leaf].children = <<>>
    /\ tree[leaf].parent # NoNode
    /\ tree[tree[leaf].parent].parent = Root

\* C9: search runs exactly num_simulations iterations, each a select, then
\* expand_and_evaluate of the selected leaf, then backup of that leaf, and
\* then ends: num_simulations backups go through the root, and root.n after
\* the search is root.n before it plus num_simulations.
C9_Search ==
    /\ [](pc = "loop" => <>(pc = "idle"))
    /\ [][/\ (pc = "loop" /\ pc' # "loop") =>
                \/ pc' = "select" /\ i < budget /\ node' = Root
                \/ /\ pc' = "idle"
                   /\ i = budget
                   /\ backed[Root] = rootN0 + budget
                   /\ tree[Root].n = rootN0 + budget
                   /\ result'.op = "search"
          /\ (pc = "select" /\ pc' # "select") => (pc' = "expand" /\ leaf' = node)
          /\ pc = "expand" => (pc' = "backup" /\ leaf' = leaf)
          /\ pc = "backup" =>
                /\ pc' = "loop" /\ i' = i + 1
                /\ tree'[leaf].n = tree[leaf].n + 1
                /\ backed'[Root] = backed[Root] + 1
                /\ tree'[Root].n = tree[Root].n + 1
          /\ pc # "idle" => (budget' = budget /\ rootN0' = rootN0) \/ pc' = "idle"]_vars

C9_Witness ==
    /\ pc = "idle"
    /\ result.op = "search"
    /\ result.sims >= 2
    /\ tree[Root].n > result.sims

\* C10: after any number of complete simulations, a node with n = 0 has
\* q = 0 and was never on a backed-up path, and a node with n > 0 has
\* q = w / n.
C10_MeanValue ==
    BetweenSimulations =>
        \A k \in 1..Len(tree) :
            /\ tree[k].n = 0 => (tree[k].q = <<0, 1>> /\ backed[k] = 0)
            /\ tree[k].n > 0 => IsMean(tree[k])

C10_Witness ==
    /\ BetweenSimulations
    /\ \E k \in 1..Len(tree) : tree[k].n = 0
    /\ \E k \in 1..Len(tree) :
          tree[k].n > 1 /\ tree[k].w # 0 /\ tree[k].parent # NoNode /\ IsMean(tree[k])

\* nd has a child that was visited
HasVisitedChild(nd) == \E c \in Kids(nd) : tree[c].n > 0

\* C11: play(node, temperature) with temperature > 0 on a node with at least
\* one visited child returns normally a pair (a, child) with child one of
\* the node's children, a = child.a and child.n > 0; every child with
\* n > 0 is a possible return; and play changes no node.
C11_Play ==
    /\ [](\A nd \in 1..Len(tree), temp \in Temperatures :
             (temp[1] > 0 /\ HasVisitedChild(nd)) =>
                 \A c \in Kids(nd) :
                     tree[c].n > 0 =>
                         \E r \in play(tree, nd, temp) :
                             r.status = "ok" /\ r.node = c)
    /\ [][(result'.op = "play" /\ result' # result) =>
             /\ tree' = tree
             /\ (result'.temp[1] > 0 /\ HasVisitedChild(result'.on)) =>
                   /\ result'.status = "ok"
                   /\ result'.node \in Kids(result'.on)
                   /\ result'.a = tree[result'.node].a
                   /\ tree[result'.node].n > 0]_vars

C11_Witness ==
    /\ result.op = "play" /\ result.status = "ok"
    /\ result.temp = <<1, 2>>
    /\ result.node \in Kids(result.on)
    /\ tree[result.node].n > 0
    /\ result.a = tree[result.node].a
    /\ result.on # Root
    /\ \E c \in Kids(result.on) : tree[c].n = 0

\* the last call was made on a node without children whose state is not
\* terminal
OnUnexpandedNonTerminalLeaf ==
    /\ result.on # NoNode
    /\ tree[result.on].children = <<>>
    /\ ~ IsTerminalNode(result.on)

\* C12: get_best_child_to_explore, play and backup, called on a leaf that
\* has no children and whose state is not terminal, each end in an error,
\* not in a normal return.
C12_ErrorOnUnexpandedLeaf ==
    (result.op \in {"explore", "play", "backup"} /\ OnUnexpandedNonTerminalLeaf)
    => result.status # "ok"

\* the actions that are legal at the state of node k
LegalAt(k) == {a \in Actions : is_legal(env, a, tree[k].s)}

\* C13: expand_and_evaluate of a non-terminal leaf creates exactly one child
\* per action that is legal at the leaf's state and none for an illegal
\* one, in ascending order of the action; each child has parent = the leaf,
\* a = its action, p = the evaluator's probability for that action,
\* to_play = the other player than the leaf's, n = w = q = 0 and no
\* children; expand_and_evaluate of a terminal leaf creates no node.
C13_Expansion ==
    [][pc = "expand" =>
        LET kids == tree'[leaf].children
            ps == Evaluate(m, tree[leaf].s).ps
        IN  IF IsTerminalNode(leaf)
            THEN Len(tree') = Len(tree) /\ kids = <<>>
            ELSE /\ tree[leaf].children = <<>>
                 /\ Len(kids) = Cardinality(LegalAt(leaf))
                 /\ {tree'[kids[k]].a : k \in 1..Len(kids)} = LegalAt(leaf)
                 /\ \A j, k \in 1..Len(kids) :
                       j < k => tree'[kids[j]].a < tree'[kids[k]].a
                 /\ {kids[k] : k \in 1..Len(kids)} = (Len(tree) + 1)..Len(tree')
                 /\ \A k \in 1..Len(kids) :
                       LET c == tree'[kids[k]]
                       IN  /\ c.parent = leaf
                           /\ c.p = ps[c.a]
                           /\ c.to_play = 1 - tree[leaf].to_play
                           /\ c.s = Append(tree[leaf].s, c.a)
                           /\ c.n = 0 /\ c.w = 0 /\ c.q = <<0, 1>>
                           /\ c.children = <<>>]_vars

C13_Witness ==
    /\ pc = "backup"
    /\ leaf # Root
    /\ ~ IsTerminalNode(leaf)
    /\ env.legal = {1}
    /\ Len(tree[leaf].children) = 1
    /\ LET c == tree[tree[leaf].children[1]]
       IN  /\ c.a = 1 /\ c.parent = leaf /\ c.n = 0
           /\ c.p = Evaluate(m, tree[leaf].s).ps[1] /\ c.p[1] > 0
           /\ c.to_play = 1 - tree[leaf].to_play

\* C14: expansion happens at most once per node: the evaluator is invoked
\* on a node, and the node's w is overwritten with its value, only at the
\* node's first visit.  (Under Spec a non-terminal node that a backup went
\* through was evaluated before: it was that backup's leaf or had children.)
C14_ExpandedOnce ==
    [][(pc = "expand" /\ ~ IsTerminalNode(leaf)) =>
          /\ backed[leaf] = 0
          /\ tree[leaf].n = 0]_vars

\* C15: once the children of a node are not empty, no step of select,
\* expand_and_evaluate, backup, play or get_policy changes them: no child
\* is added, removed or moved; and no step changes the parent, a, p, s or
\* to_play of a node, or removes a node: after its expansion only n, w and
\* q of the existing nodes change.
C15_ChildrenFixed ==
    [][/\ Len(tree') >= Len(tree)
       /\ \A k \in 1..Len(tree) :
             /\ HasChildren(k) => tree'[k].children = tree[k].children
             /\ tree'[k].parent = tree[k].parent
             /\ tree'[k].a = tree[k].a
             /\ tree'[k].p = tree[k].p
             /\ tree'[k].s = tree[k].s
             /\ tree'[k].to_play = tree[k].to_play]_vars

C15_Witness ==
    /\ result.op = "play" /\ result.status = "ok" /\ result.on = Root
    /\ tree[Root].children = <<2, 3>>
    /\ tree[2].children # <<>>
    /\ tree[Root].n >= 3
    /\ tree[2].n + tree[3].n = tree[Root].n - 1

\* following parent from k ends at None within the given number of steps
RECURSIVE ParentChainEnds(_, _)
ParentChainEnds(k, steps) ==
    IF k = NoNode THEN TRUE
    ELSE IF steps = 0 THEN FALSE
    ELSE ParentChainEnds(tree[k].parent, steps - 1)

\* the places (parent, position) at which c is listed as a child
ChildPlaces(c) ==
    {<<k, j>> \in (1..Len(tree)) \X (1..ActionSpaceSize) :
        j <= Len(tree[k].children) /\ tree[k].children[j] = c}

\* C16: in every reachable tree, on every edge parent -> child,
\* child.to_play = (parent.to_play + 1) mod 2 and child.parent is that
\* parent; the root has parent None and a None; every other node is a child
\* of exactly one node, once, and the parent chains end at the root (no
\* cycle).
C16_TreeShape ==
    /\ tree[Root].parent = NoNode
    /\ tree[Root].a = NoAction
    /\ \A k \in 1..Len(tree) :
          /\ \A c \in Kids(k) :
                /\ c \in 1..Len(tree)
                /\ tree[c].to_play = (tree[k].to_play + 1) % 2
                /\ tree[c].parent = k
          /\ k # Root => Cardinality(ChildPlaces(k)) = 1
          /\ k = Root => ChildPlaces(k) = {}
          /\ ParentChainEnds(k, Len(tree))
          /\ Root \in PathToRoot(tree, k)

C16_Witness ==
    /\ Len(tree) >= 4
    /\ \E c \in 1..Len(tree) :
          /\ tree[c].parent # NoNode
          /\ tree[tree[c].parent].parent = Root
          /\ tree[c].to_play = tree[Root].to_play
          /\ tree[tree[c].parent].to_play # tree[Root].to_play
          /\ ChildPlaces(c) = {<<tree[c].parent, 1>>}

\* the sum of the visit counts of the children of k
RECURSIVE ChildVisits(_, _)
ChildVisits(k, j) ==
    IF j > Len(tree[k].children) THEN 0
    ELSE tree[tree[k].children[j]].n + ChildVisits(k, j + 1)

\* C17: in the searches started on a fresh root, after every complete
\* simulation every node that has children has n = 1 + the sum of its
\* children's n, and the n of every node is the number of simulations whose
\* path went through the node.
C17_VisitConservation ==
    BetweenSimulations =>
        \A k \in 1..Len(tree) :
            /\ HasChildren(k) => tree[k].n = 1 + ChildVisits(k, 1)
            /\ tree[k].n = backed[k]

C17_Witness ==
    /\ BetweenSimulations
    /\ tree[Root].n = 3
    /\ \E k \in 2..Len(tree) :
          /\ HasChildren(k)
          /\ tree[k].n = 2
          /\ backed[k] = 2
          /\ ChildVisits(k, 1) = 1
    /\ \E k \in 2..Len(tree) : tree[k].parent = Root /\ tree[k].n = 0

\* C18: backup(leaf) changes only n, w and q of the nodes on the path from
\* the leaf to the root: the nodes off the path are left as they are, and
\* so are the children, parent, a, p, s and to_play of every node; no node
\* is created or removed.
C18_BackupFrame ==
    [][pc = "backup" =>
        /\ Len(tree') = Len(tree)
        /\ \A k \in 1..Len(tree) :
              /\ k \notin PathToRoot(tree, leaf) => tree'[k] = tree[k]
              /\ tree'[k] = [tree[k] EXCEPT !.n = tree'[k].n,
                                            !.w = tree'[k].w,
                                            !.q = tree'[k].q]]_vars

C18_Witness ==
    /\ pc = "loop"
    /\ i = 3
    /\ tree[Root].children = <<2, 3>>
    /\ tree[2].n = 1 /\ tree[2].w # 0 /\ tree[2].children # <<>>
    /\ tree[3].n = 1
    /\ backed[Root] = 3

\* the exploring score of child c of nd under c_puct
ScoreOf(nd, c, c_puct) ==
    get_exploring_score(tree, c, Sqrt(ChildVisits(nd, 1)), c_puct)

\* c is the first, in child order, of the children of nd whose exploring
\* score no child exceeds
FirstMaximal(nd, c, c_puct) ==
    LET kids == tree[nd].children
    IN  \E j \in 1..Len(kids) :
            /\ kids[j] = c
            /\ \A k \in 1..Len(kids) :
                  ~ ScoreGreater(ScoreOf(nd, kids[k], c_puct), ScoreOf(nd, c, c_puct))
            /\ \A k \in 1..(j - 1) :
                  ScoreGreater(ScoreOf(nd, c, c_puct), ScoreOf(nd, kids[k], c_puct))

AllChildrenUnvisited(nd) == \A c \in Kids(nd) : tree[c].n = 0

\* C19: get_best_child_to_explore returns the first, in child order, of the
\* children with the maximal exploring score; when every child has n = 0
\* that is the first child, whatever the priors and c_puct.  The steps of
\* select do the same with c_puct = 1.
C19_FirstMaximalChild ==
    /\ []((result.op = "explore" /\ result.status = "ok") =>
            /\ FirstMaximal(result.on, result.node, result.c_puct)
            /\ AllChildrenUnvisited(result.on) =>
                  result.node = tree[result.on].children[1])
    /\ [][(pc = "select" /\ pc' = "select") =>
            /\ FirstMaximal(node, node', 1)
            /\ AllChildrenUnvisited(node) => node' = tree[node].children[1]]_vars

C19_Witness ==
    /\ result.op = "explore" /\ result.status = "ok"
    /\ result.c_puct = 2
    /\ AllChildrenUnvisited(result.on)
    /\ Len(tree[result.on].children) = 2
    /\ LET c1 == tree[result.on].children[1]
           c2 == tree[result.on].children[2]
       IN  /\ result.node = c1
           /\ tree[c1].p[1] * tree[c2].p[2] < tree[c2].p[1] * tree[c1].p[2]

====
